---- MODULE Spec2Model ----
(***************************************************************************)
(* A model of reflectance_measure: the ESP301 stage driver                 *)
(* (stage/stage_utils.py) and the sweep automation (automation.py).        *)
(*                                                                         *)
(* Time is counted in ticks of 50 ms.  A cache entry is kept as            *)
(* (response, age) with age = time.time() - timestamp, saturated at        *)
(* cache_timeout: the code only ever compares that difference with         *)
(* cache_timeout.  Byte strings are sequences of byte values.              *)
(***************************************************************************)
EXTENDS Integers, Sequences, FiniteSets, TLC

VARIABLES
    connection,   \* Stage._connection: "None", "open" or "closed" (a closed Serial object)
    axis,         \* Stage._axis: 0 stands for None, else 1..3
    cache,        \* Stage._cache: command -> [resp, age, of]; "of" is a ghost: the command the stored response answered
    rx,           \* the serial input buffer: responses written by the device and not yet read
    link,         \* the serial line: "up", "mute" (no answer arrives), "down" (I/O raises)
    dev,          \* the ESP301: [on, busy] sets of axes, pos of the installed axes
    last,         \* ghost: the last Stage operation: [op, arg (set_axis's axis_number), io (commands written), tmo (a read timed out),
                  \*        port (serial ports closed and opened), exc, ret]
    calls,        \* ghost: the number of Stage operations called so far from outside a run (the sequential caller, the GUI)
    params,       \* ExperimentAutomation: start_angle, end_angle, increment_angle, nb_measurements, measurement_interval,
                  \*        save (save_file is not None), and do_measurement's homing
    measurements, \* ExperimentAutomation._measurements
    daq,          \* the DAQ: "ok", or "none" (no channel set: read_channel raises)
    thread,       \* the widget's QThread _t: "stopped" or "running"
    evq,          \* do_measurement calls posted to the worker thread's event loop and not yet taken
    mainq,        \* sig_measurement_finished / sig_measurement_failed emissions queued for the main thread
    ui,           \* the widget: [start, cancel (the buttons enabled); ghosts: starts, cancels (presses), done (sig_experiment_finished emissions)]
    pc,           \* where the worker thread is in do_measurement ("idle": in its event loop, or not running)
    loc,          \* do_measurement's locals: [angles, ai (index in angles), si (the loop's i), since (time.time() - last_save_time, in ticks,
                  \*        saturated above SaveAfter), timer (ticks left of a sleep); ghosts: after (what the wait precedes),
                  \*        sleeps (inter-sample sleeps of this angle), moved (the position in the run's last move command),
                  \*        stale (responses in rx that were there when the run's last home or move command was written),
                  \*        fresh (since that command, the response to a TS query written after it has said: not busy)]
    file,         \* the file at save_file: [rows (what it holds, << >>: no file written); ghosts: writes (times the run in
                  \*        progress wrote it), gap (ticks of the run since it last wrote it, saturated above SaveAfter)]
    run           \* ghost, about the run in progress or last ended: [added (sig_measurement_added emissions), raised, ended, killedAt, busyAtKill, emitted (terminal notifications),
                  \*        prev (the number of measurements when it began)]

stagevars == <<connection, axis, cache, rx, link, dev, last>>
runvars == <<params, measurements, daq, thread, evq, mainq, ui, pc, loc, file, run>>
vars == <<connection, axis, cache, rx, link, dev, last, calls,
          params, measurements, daq, thread, evq, mainq, ui, pc, loc, file, run>>

----------------------------------------------------------------------------
(* Program constants and bounds *)

cache_timeout == 2      \* Stage.__init__(cache_timeout=0.1): 0.1 s = 2 ticks
serial_timeout == 2     \* ESP301_Connection.__init__(timeout=0.1)
MaxAxis == 3            \* set_axis: 1 <= axis_number <= 3
MaxCalls == 4           \* the sequential caller makes at most MaxCalls calls
MaxPos == 1             \* positions commanded and reported lie in -MaxPos..0
Res == 3                \* goto_position formats a position with 4 decimals: angles, and the positions passed
                        \*   to goto_position, are counted in Res-ths of 0.0001 degree
MaxEnd == 1             \* end_angle is one of 0..MaxEnd steps of the increment
MaxSamples == 2         \* nb_measurements is one of 1..MaxSamples
MaxStarts == 2          \* the start button is pressed at most MaxStarts times
MaxAngle == 12          \* where np.arange is checked alone: start_angle and end_angle are among 0..MaxAngle
MaxInc == 10            \*   and increment_angle is one of 1..MaxInc
MaxDown == 2            \* where the start angle may lie above the end angle: both are among 0..MaxDown
SaveAfter == 20         \* do_measurement: time.time() - last_save_time > 1: 1 s = 20 ticks
PollInterval == 1       \* wait_until_done: the pause between two is_busy polls (50 ms)
Readings == {0, 1}      \* the values DAQ.read_channel returns

Axes == 1..MaxAxis
Installed == {1}        \* the axes the controller has a stage on; the others answer "Unknown"
Positions == (0 - MaxPos)..0    \* the stage is mounted inverted: angles 0..90 are positions -90..0
FinePositions == (0 - MaxPos * Res)..0     \* the positions a caller can pass to goto_position

None == <<>>            \* a response that is None or b'' : no bytes

Cmd(ax, op, arg) == [ax |-> ax, op |-> op, arg |-> arg]
TS == Cmd(0, "TS", 0)
NoCmd == Cmd(0, "", 0)  \* ghost: no command (the origin of a read that timed out)
IsQuery(c) == c.op \in {"MO?", "PA?", "VA?", "ID?", "TS", "TB"}

----------------------------------------------------------------------------
(* Byte strings *)

RECURSIVE IntFromBytes(_)
\* int.from_bytes(b) with the default byte order "big"
IntFromBytes(b) ==
    IF Len(b) = 0 THEN 0
    ELSE IntFromBytes(SubSeq(b, 1, Len(b) - 1)) * 256 + b[Len(b)]

\* a lower() that changes nothing
NoLower(b) == b

\* bytes.lower(): A..Z (65..90) become a..z
Lower(b) == [i \in 1..Len(b) |-> IF b[i] >= 65 /\ b[i] <= 90 THEN b[i] + 32 ELSE b[i]]

unknown == <<117, 110, 107, 110, 111, 119, 110>>        \* b"unknown"

\* the device's decimal text of a position
PosBytes(p) == IF p < 0 THEN <<45, 48 - p>> ELSE <<48 + p>>

\* float(rsp): [ok, n]; b'' and text that is no number raise ValueError
FloatOf(b) ==
    IF Len(b) = 1 /\ b[1] \in 48..57 THEN [ok |-> TRUE, n |-> b[1] - 48]
    ELSE IF Len(b) = 2 /\ b[1] = 45 /\ b[2] \in 48..57 THEN [ok |-> TRUE, n |-> 48 - b[2]]
    ELSE [ok |-> FALSE, n |-> 0]

----------------------------------------------------------------------------
(* The ESP301 controller behind the serial line (environment) *)

\* the status byte answered to TS: bit n-1 is axis n in motion, bit 4 motor power, bit 6 set
StatusByte(d) ==
    64 + (IF d.on # {} THEN 16 ELSE 0)
       + (IF 1 \in d.busy THEN 1 ELSE 0) + (IF 2 \in d.busy THEN 2 ELSE 0)
       + (IF 3 \in d.busy THEN 4 ELSE 0)

\* "0, 1, N": the answer to TB when no error is pending (code, timestamp, message)
NoErrorText == <<48, 44, 32, 49, 44, 32, 78>>

\* the device's answer to a query
DeviceAnswer(d, c) ==
    CASE c.op = "TS" -> <<StatusByte(d)>>
      [] c.op = "TB" -> NoErrorText
      [] c.op = "ID?" -> IF c.ax \in Installed THEN <<80, 82>>
                         ELSE IF c.ax = 2 THEN <<85>> \o SubSeq(unknown, 2, 7)     \* "Unknown"
                         ELSE [i \in 1..7 |-> unknown[i] - 32]                    \* "UNKNOWN"
      [] c.op = "MO?" -> IF c.ax \in d.on THEN <<49>> ELSE <<48>>
      [] c.op = "PA?" -> IF c.ax \in Installed THEN PosBytes(d.pos[c.ax]) ELSE <<48>>
      [] c.op = "VA?" -> <<50>>
      [] OTHER -> None

\* the device's state after a command
DeviceReact(d, c) ==
    IF c.ax \notin Installed THEN d
    ELSE CASE c.op = "MO" -> [d EXCEPT !.on = @ \cup {c.ax}]
           [] c.op = "MF" -> [d EXCEPT !.on = @ \ {c.ax}, !.busy = @ \ {c.ax}]
           [] c.op = "OR" -> IF c.ax \in d.on
                             THEN [d EXCEPT !.busy = @ \cup {c.ax}, !.pos[c.ax] = 0] ELSE d
           [] c.op = "PA" -> IF c.ax \in d.on
                             THEN [d EXCEPT !.busy = @ \cup {c.ax}, !.pos[c.ax] = c.arg] ELSE d
           [] c.op = "ST" -> [d EXCEPT !.busy = @ \ {c.ax}]
           [] OTHER -> d

----------------------------------------------------------------------------
(* The response cache *)

\* time passing: every entry grows older (saturating at cache_timeout)
AgeBy(c, t) ==
    [k \in DOMAIN c |-> [c[k] EXCEPT !.age = IF @ + t > cache_timeout THEN cache_timeout ELSE @ + t]]

\* TimeStampedDict.__getitem__: a missing key reads as (None, 0), and time.time() - 0 is past any timeout
CacheGet(c, k) ==
    IF k \in DOMAIN c THEN c[k] ELSE [resp |-> None, age |-> cache_timeout, of |-> k]

\* TimeStampedDict.__setitem__: the value with the current time
CachePut(c, k, resp, of) == (k :> [resp |-> resp, age |-> 0, of |-> of]) @@ c

\* dict.__delitem__ (not overridden): [ok, c]; a missing key raises KeyError
CacheDel(c, k) ==
    IF k \in DOMAIN c THEN [ok |-> TRUE, c |-> [x \in DOMAIN c \ {k} |-> c[x]]]
    ELSE [ok |-> FALSE, c |-> c]

----------------------------------------------------------------------------
(* The serial transport.  A world w is the Stage, its line and the device:  *)
(* [conn, axis, cache, rx, link, dev, io, tmo]; io lists the commands       *)
(* written by the operation in progress, tmo says that one of its reads     *)
(* timed out.  A step returns [w, exc, val, of].                            *)

Done(w, val) == [w |-> w, exc |-> "", val |-> val, of |-> NoCmd]
Raise(w, exc) == [w |-> w, exc |-> exc, val |-> None, of |-> NoCmd]

\* ESP301_Connection.command: Serial.write of the command and CRLF
Command(w, c) ==
    IF w.conn # "open" \/ w.link = "down" THEN Raise(w, "SerialException")
    ELSE Done([w EXCEPT !.io = Append(@, c),
                        !.dev = IF w.link = "up" THEN DeviceReact(@, c) ELSE @,
                        !.rx = IF w.link = "up" /\ IsQuery(c)
                               THEN Append(@, [cmd |-> c, val |-> DeviceAnswer(w.dev, c)])
                               ELSE @], None)

\* ESP301_Connection.response: Serial.readline with the CRLF removed; with nothing
\* to read it returns b'' once the read timeout has passed
Response(w) ==
    IF w.conn # "open" \/ w.link = "down" THEN Raise(w, "SerialException")
    ELSE IF Len(w.rx) > 0
         THEN [w |-> [w EXCEPT !.rx = Tail(@)], exc |-> "", val |-> Head(w.rx).val, of |-> Head(w.rx).cmd]
         ELSE [w |-> [w EXCEPT !.cache = AgeBy(@, serial_timeout), !.tmo = TRUE], exc |-> "", val |-> None, of |-> NoCmd]

----------------------------------------------------------------------------
(* Stage operations.  Each returns [w, exc, ret]: the world after the call, *)
(* the exception raised ("" for none) and the value returned.               *)

RetNone == [typ |-> "None", n |-> 0]
RetBool(b) == [typ |-> "bool", n |-> IF b THEN 1 ELSE 0]
RetNum(n) == [typ |-> "num", n |-> n]
Return(w, ret) == [w |-> w, exc |-> "", ret |-> ret]
Throw(w, exc) == [w |-> w, exc |-> exc, ret |-> RetNone]

\* a check of the connection that does not look at the axis
ConnectionCheckOnly(w) == IF w.conn = "None" THEN "RuntimeError" ELSE ""

\* Stage.connection_check: the exception it raises, "" for none
connection_check(w) ==
    IF w.conn = "None" THEN "RuntimeError"
    ELSE IF w.axis = 0 THEN "RuntimeError"
    ELSE ""

\* CachedLookup with > in place of >= : an entry exactly cache_timeout old is still served
CachedLookupLate(w, cmd) ==
    LET e == CacheGet(w.cache, cmd) IN
    IF e.age > cache_timeout - 1 + (IF cmd \in DOMAIN w.cache THEN 1 ELSE 0)
    THEN Command(w, cmd) @@ [hit |-> FALSE]
    ELSE Done(w, e.resp) @@ [hit |-> TRUE]

\* Stage._cached_command, first half: the cache lookup and, past the timeout, the write.
\* [w, exc, val, of, hit]: hit says the cached response is the result
CachedLookup(w, cmd) ==
    LET e == CacheGet(w.cache, cmd) IN
    IF e.age >= cache_timeout
    THEN Command(w, cmd) @@ [hit |-> FALSE]
    ELSE Done(w, e.resp) @@ [hit |-> TRUE]

\* Stage._cached_command, second half: read the response and store it
CachedStore(w, cmd) ==
    LET r == Response(w) IN
    IF r.exc # "" THEN r
    ELSE [r EXCEPT !.w.cache = CachePut(@, cmd, r.val, r.of)]

\* Stage._cached_command
CachedCommand(w, cmd) ==
    LET a == CachedLookup(w, cmd) IN
    IF a.exc # "" \/ a.hit THEN [w |-> a.w, exc |-> a.exc, val |-> a.val, of |-> a.of]
    ELSE CachedStore(a.w, cmd)

\* SendAndEvict without the del statement
SendNoEvict(w, cmd, key) ==
    LET c == Command(w, cmd) IN
    IF c.exc # "" THEN Throw(c.w, c.exc) ELSE Return(c.w, RetNone)

\* the body shared by enable, goto_home, goto_position and stop: write the command,
\* then del self._cache[key]
SendAndEvict(w, cmd, key) ==
    LET c == Command(w, cmd) IN
    IF c.exc # "" THEN Throw(c.w, c.exc)
    ELSE LET d == CacheDel(c.w.cache, key) IN
         IF d.ok THEN Return([c.w EXCEPT !.cache = d.c], RetNone)
         ELSE Throw(c.w, "KeyError")

\* Stage.enable(enable)
Enable(w, en) ==
    IF connection_check(w) # "" THEN Throw(w, connection_check(w))
    ELSE SendAndEvict(w, Cmd(w.axis, IF en THEN "MO" ELSE "MF", 0), Cmd(w.axis, "MO?", 0))

\* Stage.disable(disable)
Disable(w, dis) == Enable(w, ~dis)

\* the decoding in Stage.enabled: bool.from_bytes(rsp)
\* (an integer of any length is non-zero when one of its bytes is)
EnabledValue(rsp) == \E i \in 1..Len(rsp) : rsp[i] # 0

\* Stage.enabled
Enabled(w) ==
    IF connection_check(w) # "" THEN Throw(w, connection_check(w))
    ELSE LET r == CachedCommand(w, Cmd(w.axis, "MO?", 0)) IN
         IF r.exc # "" THEN Throw(r.w, r.exc)
         ELSE Return(r.w, RetBool(EnabledValue(r.val)))

\* Stage.goto_home
GotoHome(w) ==
    IF connection_check(w) # "" THEN Throw(w, connection_check(w))
    ELSE SendAndEvict(w, Cmd(w.axis, "OR", 0), TS)

\* a decoding that takes any set bit of the status word for motion
BusyAnyBit(rsp, ax) == \E i \in 1..Len(rsp) : rsp[i] # 0

\* a decoding that shifts by the axis number
BusyBitOfAxis(rsp, ax) == Len(rsp) > 0 /\ ((rsp[Len(rsp)] \div (2 ^ ax)) % 2) = 1

\* the decoding in Stage.is_busy: bool((int.from_bytes(rsp) >> (axis - 1)) & 1)
\* (bit axis-1 of a big-endian integer of any length is that bit of its last byte)
BusyBit(rsp, ax) == Len(rsp) > 0 /\ ((rsp[Len(rsp)] \div (2 ^ (ax - 1))) % 2) = 1

\* Stage.is_busy
IsBusy(w) ==
    IF connection_check(w) # "" THEN Throw(w, connection_check(w))
    ELSE LET r == CachedCommand(w, TS) IN
         IF r.exc # "" THEN Throw(r.w, r.exc)
         ELSE Return(r.w, RetBool(BusyBit(r.val, w.axis)))

\* the body shared by get_position and get_velocity: float(rsp)
CachedFloat(w, cmd) ==
    LET r == CachedCommand(w, cmd) IN
    IF r.exc # "" THEN Throw(r.w, r.exc)
    ELSE IF FloatOf(r.val).ok THEN Return(r.w, RetNum(FloatOf(r.val).n))
    ELSE Throw(r.w, "ValueError")

\* Stage.get_position
GetPosition(w) ==
    IF connection_check(w) # "" THEN Throw(w, connection_check(w))
    ELSE CachedFloat(w, Cmd(w.axis, "PA?", 0))

\* a formatting that drops the decimals after the fourth
Fmt4Truncated(x) == 0 - ((0 - x) \div Res)

\* f"{pos:.4f}" for pos <= 0: the multiple of 0.0001 nearest to pos, the even one of two
\* equally near
Fmt4(x) ==
    LET n == 2 * x + Res
        d == 2 * Res
        q == n \div d
    IN IF n % d = 0 /\ q % 2 # 0 THEN q - 1 ELSE q

\* Stage.goto_position(pos)
GotoPosition(w, pos) ==
    IF connection_check(w) # "" THEN Throw(w, connection_check(w))
    ELSE SendAndEvict(w, Cmd(w.axis, "PA", Fmt4(pos)), TS)

\* Stage.get_velocity
GetVelocity(w) ==
    IF connection_check(w) # "" THEN Throw(w, connection_check(w))
    ELSE CachedFloat(w, Cmd(w.axis, "VA?", 0))

\* Stage.stop
Stop(w) ==
    IF connection_check(w) # "" THEN Throw(w, connection_check(w))
    ELSE SendAndEvict(w, Cmd(w.axis, "ST", 0), TS)

RECURSIVE CountSep(_)
\* the number of b", " separators in a byte string
CountSep(b) ==
    IF Len(b) < 2 THEN 0
    ELSE (IF b[1] = 44 /\ b[2] = 32 THEN 1 ELSE 0) + CountSep(Tail(b))

\* Stage.error_status: err_code, _, err_msg = response.split(b", "); int(err_code)
ErrorStatus(w) ==
    IF connection_check(w) # "" THEN Throw(w, connection_check(w))
    ELSE LET c == Command(w, Cmd(0, "TB", 0)) IN
         IF c.exc # "" THEN Throw(c.w, c.exc)
         ELSE LET r == Response(c.w) IN
              IF r.exc # "" THEN Throw(r.w, r.exc)
              ELSE IF CountSep(r.val) = 2 /\ r.val[1] \in 48..57 /\ r.val[2] = 44
                   THEN Return(r.w, RetNum(r.val[1] - 48))
                   ELSE Throw(r.w, "ValueError")

\* set_axis with its two argument checks in the other order
SetAxisRangeFirst(w, n) ==
    LET w0 == [w EXCEPT !.axis = 0] IN
    IF ~(1 <= n /\ n <= MaxAxis) THEN Throw(w0, "ValueError")
    ELSE IF w0.conn = "None" THEN Throw(w0, "RuntimeError")
    ELSE LET c == Command(w0, Cmd(n, "ID?", 0)) IN
         IF c.exc # "" THEN Throw(c.w, c.exc)
         ELSE LET r == Response(c.w) IN
              IF r.exc # "" THEN Throw(r.w, r.exc)
              ELSE IF Lower(r.val) = unknown THEN Throw(r.w, "RuntimeError")
              ELSE Return([r.w EXCEPT !.axis = n], RetNone)

\* a set_axis that gives up the bound axis only when it binds the new one
SetAxisKeepsAxis(w, n) ==
    IF w.conn = "None" THEN Throw(w, "RuntimeError")
    ELSE IF ~(1 <= n /\ n <= MaxAxis) THEN Throw(w, "ValueError")
    ELSE LET c == Command(w, Cmd(n, "ID?", 0)) IN
         IF c.exc # "" THEN Throw(c.w, c.exc)
         ELSE LET r == Response(c.w) IN
              IF r.exc # "" THEN Throw(r.w, r.exc)
              ELSE IF Lower(r.val) = unknown THEN Throw(r.w, "RuntimeError")
              ELSE Return([r.w EXCEPT !.axis = n], RetNone)

\* Stage.set_axis(axis_number) with an argument that is not an int: self._axis = None,
\* then the isinstance test raises TypeError
SetAxisNotInt(w) == Throw([w EXCEPT !.axis = 0], "TypeError")

\* Stage.set_axis(axis_number)
SetAxis(w, n) ==
    LET w0 == [w EXCEPT !.axis = 0] IN
    IF w0.conn = "None" THEN Throw(w0, "RuntimeError")
    ELSE IF ~(1 <= n /\ n <= MaxAxis) THEN Throw(w0, "ValueError")
    ELSE LET c == Command(w0, Cmd(n, "ID?", 0)) IN
         IF c.exc # "" THEN Throw(c.w, c.exc)
         ELSE LET r == Response(c.w) IN
              IF r.exc # "" THEN Throw(r.w, r.exc)
              ELSE IF Lower(r.val) = unknown THEN Throw(r.w, "RuntimeError")
              ELSE Return([r.w EXCEPT !.axis = n], RetNone)

\* a finally clause that forgets a connection it finds closed
CloseFinallyForgets(w) ==
    [w EXCEPT !.axis = 0,
              !.conn = IF @ = "open" THEN "closed" ELSE "None",
              !.rx = IF w.conn = "None" THEN @ ELSE <<>>,
              !.port = IF w.conn = "open" THEN Append(@, "close") ELSE @]

\* the finally clause of Stage.close: drop the axis, close the serial port (Serial.close
\* does nothing on a port that is not open)
CloseFinally(w) ==
    [w EXCEPT !.axis = 0,
              !.conn = IF @ = "None" THEN "None" ELSE "closed",
              !.rx = IF w.conn = "None" THEN @ ELSE <<>>,
              !.port = IF w.conn = "open" THEN Append(@, "close") ELSE @]

\* Stage.close: stop() and disable() under "except RuntimeError: pass", then the finally clause
Close(w) ==
    LET s == Stop(w) IN
    IF s.exc = "RuntimeError" THEN Return(CloseFinally(s.w), RetNone)
    ELSE IF s.exc # "" THEN Throw(CloseFinally(s.w), s.exc)
    ELSE LET d == Disable(s.w, TRUE) IN
         IF d.exc = "RuntimeError" \/ d.exc = "" THEN Return(CloseFinally(d.w), RetNone)
         ELSE Throw(CloseFinally(d.w), d.exc)

\* open_connection without the close() that precedes the new ESP301_Connection
OpenConnectionNoClose(w) ==
    IF w.link = "down" THEN Throw(w, "SerialException")
    ELSE Return([w EXCEPT !.conn = "open", !.rx = <<>>, !.port = Append(@, "open")], RetNone)

\* Stage.open_connection(port): close(), then a new ESP301_Connection (Serial opens the port)
OpenConnection(w) ==
    LET c == Close(w) IN
    IF c.exc # "" THEN c
    ELSE IF c.w.link = "down" THEN Throw(c.w, "SerialException")
    ELSE Return([c.w EXCEPT !.conn = "open", !.rx = <<>>, !.port = Append(@, "open")], RetNone)

----------------------------------------------------------------------------
(* The Stage driven by one sequential caller *)

\* do_measurement's locals before a run, the save file before it is written
NoLocals == [angles |-> << >>, ai |-> 0, si |-> 0, since |-> 0, timer |-> 0,
             after |-> "", sleeps |-> 0, moved |-> 0, stale |-> 0, fresh |-> TRUE]
NoFile == [rows |-> << >>, gap |-> 0, writes |-> 0]
NoRunYet == [added |-> << >>, raised |-> "", ended |-> "", killedAt |-> "", busyAtKill |-> FALSE,
             emitted |-> 0, prev |-> 0]

World ==
    [conn |-> connection, axis |-> axis, cache |-> cache, rx |-> rx,
     link |-> link, dev |-> dev, io |-> <<>>, tmo |-> FALSE, port |-> <<>>]

\* the state after an operation, called with argument arg, that returned r
ApplyArg(r, op, arg) ==
    /\ connection' = r.w.conn
    /\ axis' = r.w.axis
    /\ cache' = r.w.cache
    /\ rx' = r.w.rx
    /\ link' = r.w.link
    /\ dev' = r.w.dev
    /\ last' = [op |-> op, io |-> r.w.io, tmo |-> r.w.tmo, exc |-> r.exc, ret |-> r.ret, arg |-> arg,
                port |-> r.w.port]

\* the state after an operation that returned r
Apply(r, op) == ApplyArg(r, op, 0)

\* one call by the sequential caller
CommitArg(r, op, arg) ==
    /\ calls < MaxCalls
    /\ calls' = calls + 1
    /\ ApplyArg(r, op, arg)
    /\ UNCHANGED runvars

Commit(r, op) == CommitArg(r, op, 0)

\* the automation, not used by the sequential caller
NoRun ==
    /\ params = [start |-> 0, end |-> 0, inc |-> 1, nb |-> 1, interval |-> 1, homing |-> TRUE,
                 save |-> FALSE]
    /\ measurements = << >>
    /\ daq = "none"
    /\ thread = "stopped"
    /\ evq = 0
    /\ mainq = << >>
    /\ ui = [start |-> TRUE, cancel |-> FALSE, starts |-> 0, cancels |-> 0, done |-> 0]
    /\ pc = "idle"
    /\ loc = NoLocals
    /\ file = NoFile
    /\ run = NoRunYet

\* Stage.__init__: Stage() has no connection and no axis; Stage(port, axis_number)
\* has opened the port and bound the axis
Init ==
    /\ link \in {"up", "mute", "down"}
    /\ \/ connection = "None" /\ axis = 0
       \/ connection = "open" /\ axis \in Installed /\ link # "down"
    /\ cache = << >>
    /\ rx = << >>
    /\ \E on \in SUBSET Installed :
          dev = [on |-> on, busy |-> {}, pos |-> [a \in Installed |-> 0]]
    /\ last = [op |-> "init", io |-> << >>, tmo |-> FALSE, exc |-> "", ret |-> RetNone, arg |-> 0,
               port |-> << >>]
    /\ calls = 0
    /\ NoRun

CallOpenConnection == Commit(OpenConnection(World), "open_connection")
CallSetAxis == \E n \in 0..(MaxAxis + 1) : CommitArg(SetAxis(World, n), "set_axis", n)
CallSetAxisNotInt == Commit(SetAxisNotInt(World), "set_axis (not an int)")
CallClose == Commit(Close(World), "close")
CallEnable == \E en \in BOOLEAN : Commit(Enable(World, en), IF en THEN "enable" ELSE "disable")
CallEnabled == Commit(Enabled(World), "enabled")
CallGotoHome == Commit(GotoHome(World), "goto_home")
CallIsBusy == Commit(IsBusy(World), "is_busy")
CallGetPosition == Commit(GetPosition(World), "get_position")
CallGotoPosition == \E p \in FinePositions : Commit(GotoPosition(World, p), "goto_position")
CallGetVelocity == Commit(GetVelocity(World), "get_velocity")
CallStop == Commit(Stop(World), "stop")
CallErrorStatus == Commit(ErrorStatus(World), "error_status")

\* 50 ms pass
Tick ==
    /\ calls < MaxCalls
    /\ cache' = AgeBy(cache, 1)
    /\ cache' # cache
    /\ UNCHANGED <<connection, axis, rx, link, dev, last, calls>>
    /\ UNCHANGED runvars

\* the controller finishes the motion of an axis
MotionDone ==
    /\ calls < MaxCalls
    /\ \E a \in dev.busy : dev' = [dev EXCEPT !.busy = @ \ {a}]
    /\ UNCHANGED <<connection, axis, cache, rx, link, last, calls>>
    /\ UNCHANGED runvars

\* the line or the controller fails or recovers
LinkChange ==
    /\ calls < MaxCalls
    /\ link' \in {"up", "mute", "down"} \ {link}
    /\ UNCHANGED <<connection, axis, cache, rx, dev, last, calls>>
    /\ UNCHANGED runvars

Next ==
    \/ CallOpenConnection \/ CallSetAxis \/ CallSetAxisNotInt \/ CallClose
    \/ CallEnable \/ CallEnabled \/ CallGotoHome \/ CallIsBusy
    \/ CallGetPosition \/ CallGotoPosition \/ CallGetVelocity
    \/ CallStop \/ CallErrorStatus
    \/ Tick \/ MotionDone \/ LinkChange

Spec == Init /\ [][Next]_vars

----------------------------------------------------------------------------
(* The sweep: ExperimentAutomation.do_measurement on the worker thread, and  *)
(* the ExperimentAutomationWidget that starts and cancels it                 *)

\* np.arange(start_angle, end_angle + increment_angle/10, increment_angle):
\* ceil((stop - start)/step) values start, start + step, ...
Angles(p) ==
    LET num == 10 * (p.end - p.start) + p.inc
        den == 10 * p.inc
        n == IF num <= 0 THEN 0 ELSE (num + den - 1) \div den
    IN [i \in 1..n |-> p.start + (i - 1) * p.inc]

\* an arange that yields its start value when its range is empty
ArangeAtLeastOne(p) == {IF Len(Angles(p)) = 0 THEN <<p.start>> ELSE Angles(p)}

\* np.arange in double arithmetic: when (stop - start)/step is a whole number m >= 0 in
\* exact arithmetic, the computed quotient can lie just above m and the array has m + 1
\* values
Arange(p) ==
    LET num == 10 * (p.end - p.start) + p.inc
        den == 10 * p.inc
        a == Angles(p)
    IN IF num >= 0 /\ num % den = 0
       THEN {a, Append(a, p.start + Len(a) * p.inc)}
       ELSE {a}

\* the world as the operation in progress left it (an operation of two steps)
WorldCont == [World EXCEPT !.io = last.io, !.tmo = last.tmo]

\* a Stage operation, or a step of one, made by the worker or the main thread
StageStep(r, op) == Apply(r, op) /\ calls' = calls
NoStageStep == UNCHANGED <<stagevars, calls>>

\* a handler that lets the finished notification follow the failed one
CatchExceptionThenFinished(s, exc) ==
    [s EXCEPT !.mainq = Append(Append(@, [sig |-> "failed", exc |-> exc]), [sig |-> "finished", exc |-> ""])]

\* a handler that discards the samples of the failed run
CatchExceptionClears(s, exc) ==
    [s EXCEPT !.mainq = Append(@, [sig |-> "failed", exc |-> exc]), !.measurements = << >>]

\* ExperimentAutomation.catch_exception, the except clause: emit sig_measurement_failed(e).
\* s is [mainq, measurements]
CatchException(s, exc) ==
    [s EXCEPT !.mainq = Append(@, [sig |-> "failed", exc |-> exc])]

\* the worker goes on to another statement of do_measurement
RunTo(newpc, newloc) ==
    /\ pc' = newpc
    /\ loc' = newloc
    /\ UNCHANGED <<mainq, measurements, run>>

\* an except clause that reports the failure and runs the failed statement again
RunFailRetries(exc) ==
    LET c == CatchException([mainq |-> mainq, measurements |-> measurements], exc) IN
    /\ mainq' = c.mainq
    /\ measurements' = c.measurements
    /\ pc' = pc
    /\ loc' = loc
    /\ run' = [run EXCEPT !.raised = exc, !.ended = "failed",
                          !.emitted = @ + Len(c.mainq) - Len(mainq)]

\* an exception leaves do_measurement: the except clause, then the return to the event loop
RunFail(exc) ==
    LET c == CatchException([mainq |-> mainq, measurements |-> measurements], exc) IN
    /\ mainq' = c.mainq
    /\ measurements' = c.measurements
    /\ pc' = "idle"
    /\ loc' = loc
    /\ run' = [run EXCEPT !.raised = exc, !.ended = "failed",
                          !.emitted = @ + Len(c.mainq) - Len(mainq)]

Worker(at) == thread = "running" /\ pc = at /\ UNCHANGED <<params, daq, thread, evq, ui>>
Step(at) == Worker(at) /\ file' = file

\* if not self._stage.enabled(): self._stage.enable()
AfterEnabled(rsp) == [pc |-> IF EnabledValue(rsp) THEN "home" ELSE "enable", loc |-> loc]

\* Stage.wait_until_done, on is_busy()'s value: sleep and poll again, or return
AfterBusy(rsp) ==
    IF BusyBit(rsp, axis) THEN [pc |-> "wait_sleep", loc |-> [loc EXCEPT !.timer = PollInterval]]
    ELSE [pc |-> loc.after, loc |-> loc]

\* where the run goes with the response to its query
After(op, rsp) == IF op = "enabled" THEN AfterEnabled(rsp) ELSE AfterBusy(rsp)

\* the first half of a cached query made by the run: connection_check, the lookup, the write
QueryA(op, key, rxpc) ==
    LET chk == connection_check(World)
        a == CachedLookup(World, key)
    IN IF chk # "" THEN StageStep(Throw(World, chk), op) /\ RunFail(chk)
       ELSE IF a.exc # "" THEN StageStep(Throw(a.w, a.exc), op) /\ RunFail(a.exc)
       ELSE IF a.hit THEN StageStep(Return(a.w, RetNone), op) /\ RunTo(After(op, a.val).pc, After(op, a.val).loc)
       ELSE StageStep(Return(a.w, RetNone), op) /\ RunTo(rxpc, loc)

\* ghost: what the response just read tells about the run's last home or move command
Read(l, r) ==
    [l EXCEPT !.stale = IF rx # << >> /\ @ > 0 THEN @ - 1 ELSE @,
              !.fresh = @ \/ (rx # << >> /\ l.stale = 0 /\ r.of = TS /\ ~BusyBit(r.val, axis))]

\* the second half: the read and the store
QueryB(op, key) ==
    LET r == CachedStore(WorldCont, key) IN
    IF r.exc # "" THEN StageStep(Throw(r.w, r.exc), op) /\ RunFail(r.exc)
    ELSE StageStep(Return(r.w, RetNone), op)
         /\ RunTo(After(op, r.val).pc, Read(After(op, r.val).loc, r))

\* a Stage operation made by the run in one step
Mutate(r, op, newpc, newloc) ==
    /\ StageStep(r, op)
    /\ IF r.exc # "" THEN RunFail(r.exc) ELSE RunTo(newpc, newloc)

\* the worker's event loop takes a posted do_measurement call
RunBegin ==
    /\ thread = "running" /\ pc = "idle" /\ evq > 0
    /\ evq' = evq - 1
    /\ pc' = "enabled"
    /\ run' = [NoRunYet EXCEPT !.prev = Len(measurements)]
    /\ file' = [file EXCEPT !.writes = 0, !.gap = 0]
    /\ loc' = [loc EXCEPT !.stale = 0, !.fresh = TRUE]
    /\ UNCHANGED <<params, daq, thread, mainq, ui, measurements>>
    /\ NoStageStep

\* if not self._stage.enabled(): the query, in its two halves
StepEnabled == Step("enabled") /\ QueryA("enabled", Cmd(axis, "MO?", 0), "enabled_rx")
StepEnabledRx == Step("enabled_rx") /\ QueryB("enabled", Cmd(axis, "MO?", 0))

\* self._stage.enable()
StepEnable == Step("enable") /\ Mutate(Enable(World, TRUE), "enable", "home", loc)

\* if homing: self._stage.goto_home()
StepHome ==
    /\ Step("home")
    /\ IF params.homing
       THEN Mutate(GotoHome(World), "goto_home", "wait",
                   [loc EXCEPT !.after = "reset", !.stale = Len(rx), !.fresh = FALSE])
       ELSE NoStageStep /\ RunTo("wait", [loc EXCEPT !.after = "reset"])

\* Stage.wait_until_done: while self.is_busy(): time.sleep(PollInterval)
StepWait == Step("wait") /\ QueryA("is_busy", TS, "wait_rx")
StepWaitRx == Step("wait_rx") /\ QueryB("is_busy", TS)
StepWaitSleep == Step("wait_sleep") /\ loc.timer = 0 /\ NoStageStep /\ RunTo("wait", loc)

\* self._measurements = []; angles = np.arange(...); last_save_time = time.time();
\* for angle in angles:
StepReset ==
    /\ Step("reset")
    /\ measurements' = << >>
    /\ \E a \in Arange(params) :
          /\ pc' = IF Len(a) = 0 THEN "finish" ELSE "move"
          /\ loc' = [loc EXCEPT !.angles = a, !.ai = 1, !.si = 0, !.since = 0, !.sleeps = 0]
    /\ UNCHANGED <<mainq, run>>
    /\ NoStageStep

\* self._stage.goto_position(-angle)
StepMove ==
    /\ Step("move")
    /\ LET r == GotoPosition(World, 0 - loc.angles[loc.ai]) IN
       Mutate(r, "goto_position",
              "wait", [loc EXCEPT !.after = "sample", !.si = 0, !.sleeps = 0,
                                  !.stale = Len(rx), !.fresh = FALSE,
                                  !.moved = IF r.w.io = << >> THEN @ ELSE r.w.io[Len(r.w.io)].arg])

\* a loop body that sleeps after the last sample of the angle too
StepSampleSleepsLast ==
    /\ Step("sample")
    /\ NoStageStep
    /\ IF daq = "none" THEN RunFail("RuntimeError")
       ELSE \E v \in Readings :
              /\ measurements' = Append(measurements, <<loc.angles[loc.ai], v>>)
              /\ run' = [run EXCEPT !.added = Append(@, <<loc.angles[loc.ai], v>>)]
              /\ mainq' = mainq
              /\ IF loc.si + 1 <= params.nb
                 THEN pc' = "sleep" /\ loc' = [loc EXCEPT !.si = @ + 1, !.timer = params.interval,
                                                          !.sleeps = @ + 1]
                 ELSE pc' = "save" /\ loc' = [loc EXCEPT !.si = @ + 1]

\* a loop body that leaves the angle after its first sample
StepSampleOnce ==
    /\ Step("sample")
    /\ NoStageStep
    /\ IF daq = "none" THEN RunFail("RuntimeError")
       ELSE \E v \in Readings :
              /\ measurements' = Append(measurements, <<loc.angles[loc.ai], v>>)
              /\ run' = [run EXCEPT !.added = Append(@, <<loc.angles[loc.ai], v>>)]
              /\ mainq' = mainq
              /\ pc' = "save" /\ loc' = [loc EXCEPT !.si = @ + 1]

\* value = self._daq.read_channel(); append; emit sig_measurement_added; sleep unless it was the last
StepSample ==
    /\ Step("sample")
    /\ NoStageStep
    /\ IF daq = "none" THEN RunFail("RuntimeError")
       ELSE \E v \in Readings :
              /\ measurements' = Append(measurements, <<loc.angles[loc.ai], v>>)
              /\ run' = [run EXCEPT !.added = Append(@, <<loc.angles[loc.ai], v>>)]
              /\ mainq' = mainq
              /\ IF loc.si + 1 < params.nb
                 THEN pc' = "sleep" /\ loc' = [loc EXCEPT !.si = @ + 1, !.timer = params.interval,
                                                          !.sleeps = @ + 1]
                 ELSE pc' = "save" /\ loc' = [loc EXCEPT !.si = @ + 1]

\* time.sleep(self.measurement_interval) is over
StepSleep == Step("sleep") /\ loc.timer = 0 /\ NoStageStep /\ RunTo("sample", loc)

\* if self.save_file and (time.time() - last_save_time > 1): the header row and
\* self.measurements are written over the file; then the next angle
StepSave ==
    /\ Worker("save")
    /\ NoStageStep
    /\ file' = IF params.save /\ loc.since > SaveAfter
               THEN [rows |-> <<"header">> \o measurements, gap |-> 0, writes |-> file.writes + 1]
               ELSE file
    /\ IF loc.ai < Len(loc.angles) THEN RunTo("move", [loc EXCEPT !.ai = @ + 1])
       ELSE RunTo("finish", loc)

\* self.sig_measurement_finished.emit(), and the return to the event loop
StepFinish ==
    /\ Step("finish")
    /\ NoStageStep
    /\ mainq' = Append(mainq, [sig |-> "finished", exc |-> ""])
    /\ pc' = "idle"
    /\ run' = [run EXCEPT !.ended = "finished", !.emitted = @ + 1]
    /\ UNCHANGED <<measurements, loc>>

\* a terminate that does not stop the worker
TerminateLazy(s) == s

\* QThread.terminate: the worker stops where it is. s is [thread, pc]
Terminate(s) == [thread |-> "stopped", pc |-> "idle"]

\* ghost: the run in progress, if any, has been terminated
Killed(r) ==
    IF pc # "idle"
    THEN [r EXCEPT !.ended = "killed", !.killedAt = pc, !.busyAtKill = (axis \in dev.busy)]
    ELSE r

\* ExperimentAutomationWidget._measurement_done: terminate, the buttons, the save file
\* checkbox unchecked (its toggled handler _set_save_file sets save_file = None),
\* sig_experiment_finished
MeasurementDone ==
    /\ params' = [params EXCEPT !.save = FALSE]
    /\ thread' = Terminate([thread |-> thread, pc |-> pc]).thread
    /\ pc' = Terminate([thread |-> thread, pc |-> pc]).pc
    /\ run' = Killed(run)

\* the start button: _measurement_started, and the do_measurement call posted to the worker
PressStart ==
    /\ ui.start /\ ui.starts < MaxStarts
    /\ thread' = "running"
    /\ evq' = evq + 1
    /\ ui' = [ui EXCEPT !.start = FALSE, !.cancel = TRUE, !.starts = @ + 1]
    /\ UNCHANGED <<params, daq, mainq, measurements, pc, loc, file, run>>
    /\ NoStageStep

\* the cancel button: _cancel_measurement (terminate, stop() under except Exception),
\* which ends in _measurement_done
PressCancel ==
    /\ ui.cancel
    /\ StageStep(Stop(World), "stop")
    /\ MeasurementDone
    /\ ui' = [ui EXCEPT !.start = TRUE, !.cancel = FALSE, !.cancels = @ + 1, !.done = @ + 1]
    /\ UNCHANGED <<daq, evq, mainq, measurements, loc, file>>

\* the main thread's event loop delivers a queued sig_measurement_finished to
\* _measurement_done, or a sig_measurement_failed to _measurement_failed
Deliver ==
    /\ Len(mainq) > 0
    /\ mainq' = Tail(mainq)
    /\ MeasurementDone
    /\ ui' = [ui EXCEPT !.start = TRUE, !.cancel = FALSE, !.done = @ + 1]
    /\ UNCHANGED <<daq, evq, measurements, loc, file>>
    /\ NoStageStep

\* the run is in its loop over the angles, where last_save_time is read
Sweeping ==
    \/ pc \in {"move", "sample", "sleep", "save"}
    \/ pc \in {"wait", "wait_rx", "wait_sleep"} /\ loc.after = "sample"

\* 50 ms pass
RunTick ==
    /\ cache' = AgeBy(cache, 1)
    /\ loc' = [loc EXCEPT !.timer = IF @ > 0 THEN @ - 1 ELSE 0,
                          !.since = IF Sweeping /\ params.save /\ @ <= SaveAfter THEN @ + 1 ELSE @]
    /\ file' = [file EXCEPT !.gap = IF Sweeping /\ file.writes > 0 /\ @ <= SaveAfter THEN @ + 1 ELSE @]
    /\ <<cache', loc', file'>> # <<cache, loc, file>>
    /\ UNCHANGED <<connection, axis, rx, link, dev, last, calls>>
    /\ UNCHANGED <<params, measurements, daq, thread, evq, mainq, ui, pc, run>>

RunMotionDone ==
    /\ \E a \in dev.busy : dev' = [dev EXCEPT !.busy = @ \ {a}]
    /\ UNCHANGED <<connection, axis, cache, rx, link, last, calls>>
    /\ UNCHANGED runvars

\* the serial link degrades: the controller stops answering, the port fails
LinkRank(l) == IF l = "up" THEN 0 ELSE IF l = "mute" THEN 1 ELSE 2

RunLinkChange ==
    /\ link' \in {"up", "mute", "down"}
    /\ LinkRank(link') > LinkRank(link)
    /\ UNCHANGED <<connection, axis, cache, rx, dev, last, calls>>
    /\ UNCHANGED runvars

\* the cache of a stage whose status the GUI's refresh timer has polled
WarmCache(d) == (TS :> [resp |-> <<StatusByte(d)>>, age |-> cache_timeout, of |-> TS])

RunInit ==
    /\ link \in {"up", "mute"}
    /\ \E on \in SUBSET Installed :
          /\ dev = [on |-> on, busy |-> {}, pos |-> [a \in Installed |-> 0]]
          /\ \/ connection = "None" /\ axis = 0 /\ cache = << >>
             \/ connection = "open" /\ axis = 1 /\ cache \in {<< >>, WarmCache(dev)}
    /\ rx = << >>
    /\ last = [op |-> "init", io |-> << >>, tmo |-> FALSE, exc |-> "", ret |-> RetNone, arg |-> 0,
               port |-> << >>]
    /\ calls = 0
    /\ \E e \in 0..MaxEnd, n \in 1..MaxSamples, h \in BOOLEAN :
          params = [start |-> 0, end |-> e * Res, inc |-> Res, nb |-> n, interval |-> 1, homing |-> h,
                    save |-> FALSE]
    /\ measurements = << >>
    /\ daq \in {"ok", "none"}
    /\ thread = "stopped"
    /\ evq = 0
    /\ mainq = << >>
    /\ ui = [start |-> TRUE, cancel |-> FALSE, starts |-> 0, cancels |-> 0, done |-> 0]
    /\ pc = "idle"
    /\ loc = NoLocals
    /\ file = NoFile
    /\ run = NoRunYet

RunNext ==
    \/ RunBegin \/ StepEnabled \/ StepEnabledRx \/ StepEnable \/ StepHome
    \/ StepWait \/ StepWaitRx \/ StepWaitSleep \/ StepReset \/ StepMove
    \/ StepSample \/ StepSleep \/ StepSave \/ StepFinish
    \/ PressStart \/ PressCancel \/ Deliver
    \/ RunTick \/ RunMotionDone \/ RunLinkChange

RunSpec == RunInit /\ [][RunNext]_vars

\* a started worker thread is scheduled, time passes, a motion ends
WorkerNext ==
    \/ RunBegin \/ StepEnabled \/ StepEnabledRx \/ StepEnable \/ StepHome
    \/ StepWait \/ StepWaitRx \/ StepWaitSleep \/ StepReset \/ StepMove
    \/ StepSample \/ StepSleep \/ StepSave \/ StepFinish

\* the sessions in which the stage is bound and polled by the GUI, the DAQ has its
\* channel, and the sweep is the longest one: MaxEnd + 1 angles of MaxSamples samples
LiveInit ==
    /\ RunInit
    /\ connection = "open" /\ cache # << >> /\ daq = "ok"
    /\ params.end = MaxEnd * Res /\ params.nb = MaxSamples

RunLive ==
    /\ LiveInit
    /\ [][RunNext]_vars
    /\ WF_vars(WorkerNext)
    /\ WF_vars(RunTick)
    /\ WF_vars(RunMotionDone)

\* the save file checkbox is checked and a file chosen in the dialog: _set_save_file.
\* The checkbox is disabled while a run is active
SetSaveFile ==
    /\ ui.start /\ ~params.save
    /\ params' = [params EXCEPT !.save = TRUE]
    /\ UNCHANGED <<measurements, daq, thread, evq, mainq, ui, pc, loc, file, run>>
    /\ NoStageStep

\* the sessions in which a sweep of MaxEnd + 1 angles saves to a file: the stage is bound
\* and polled, the DAQ has its channel, the line keeps working and nobody cancels
SaveInit ==
    /\ RunInit
    /\ connection = "open" /\ cache # << >> /\ daq = "ok"
    /\ params.end = MaxEnd * Res /\ params.nb = MaxSamples /\ ~params.homing

SaveNext ==
    \/ WorkerNext \/ PressStart \/ Deliver \/ SetSaveFile
    \/ RunTick \/ RunMotionDone

SaveSpec == SaveInit /\ [][SaveNext]_vars

\* the sessions in which the start angle may lie above the end angle: the stage is bound
\* and polled, a previous run may have left its result, and nobody cancels
DownInit ==
    /\ connection = "open" /\ axis = 1 /\ rx = << >> /\ link \in {"up", "mute"}
    /\ dev = [on |-> Installed, busy |-> {}, pos |-> [a \in Installed |-> 0]]
    /\ cache = WarmCache(dev)
    /\ last = [op |-> "init", io |-> << >>, tmo |-> FALSE, exc |-> "", ret |-> RetNone, arg |-> 0,
               port |-> << >>]
    /\ calls = 0
    /\ \E s \in 0..MaxDown, e \in 0..MaxDown, i \in 1..MaxInc :
          params = [start |-> s, end |-> e, inc |-> i, nb |-> MaxSamples, interval |-> 1,
                    homing |-> FALSE, save |-> FALSE]
    /\ measurements \in {<< >>, << <<0, 0>> >>}
    /\ daq = "ok"
    /\ thread = "stopped"
    /\ evq = 0
    /\ mainq = << >>
    /\ ui = [start |-> TRUE, cancel |-> FALSE, starts |-> 0, cancels |-> 0, done |-> 0]
    /\ pc = "idle"
    /\ loc = NoLocals
    /\ file = NoFile
    /\ run = NoRunYet

DownNext ==
    \/ WorkerNext \/ PressStart \/ Deliver
    \/ RunTick \/ RunMotionDone

DownSpec == DownInit /\ [][DownNext]_vars

\* the sessions in which the angles are not multiples of 0.0001 degree (the attributes
\* of ExperimentAutomation take any float): two angles a third of 0.0001 degree apart
FineInit ==
    /\ connection = "open" /\ axis = 1 /\ rx = << >> /\ link \in {"up", "mute"}
    /\ \E on \in SUBSET Installed :
          /\ dev = [on |-> on, busy |-> {}, pos |-> [a \in Installed |-> 0]]
          /\ cache = WarmCache(dev)
    /\ last = [op |-> "init", io |-> << >>, tmo |-> FALSE, exc |-> "", ret |-> RetNone, arg |-> 0,
               port |-> << >>]
    /\ calls = 0
    /\ \E h \in BOOLEAN :
          params = [start |-> Res - 1, end |-> Res, inc |-> 1, nb |-> MaxSamples, interval |-> 1,
                    homing |-> h, save |-> FALSE]
    /\ measurements = << >>
    /\ daq = "ok"
    /\ thread = "stopped"
    /\ evq = 0
    /\ mainq = << >>
    /\ ui = [start |-> TRUE, cancel |-> FALSE, starts |-> 0, cancels |-> 0, done |-> 0]
    /\ pc = "idle"
    /\ loc = NoLocals
    /\ file = NoFile
    /\ run = NoRunYet

FineNext ==
    \/ WorkerNext \/ PressStart \/ PressCancel \/ Deliver
    \/ RunTick \/ RunMotionDone

FineSpec == FineInit /\ [][FineNext]_vars

\* np.arange alone: a run that has reached the computation of its angles, for every
\* start_angle <= end_angle and increment_angle > 0 of the bounded ranges
ArangeInit ==
    /\ connection = "open" /\ axis = 1 /\ cache = << >> /\ rx = << >> /\ link = "up"
    /\ dev = [on |-> Installed, busy |-> {}, pos |-> [a \in Installed |-> 0]]
    /\ last = [op |-> "init", io |-> << >>, tmo |-> FALSE, exc |-> "", ret |-> RetNone, arg |-> 0,
               port |-> << >>]
    /\ calls = 0
    /\ \E s \in 0..MaxAngle, e \in 0..MaxAngle, i \in 1..MaxInc :
          /\ s <= e
          /\ params = [start |-> s, end |-> e, inc |-> i, nb |-> 1, interval |-> 1,
                       homing |-> FALSE, save |-> FALSE]
    /\ measurements = << >>
    /\ daq = "ok"
    /\ thread = "running"
    /\ evq = 0
    /\ mainq = << >>
    /\ ui = [start |-> FALSE, cancel |-> TRUE, starts |-> 1, cancels |-> 0, done |-> 0]
    /\ pc = "reset"
    /\ loc = [NoLocals EXCEPT !.after = "reset"]
    /\ file = NoFile
    /\ run = NoRunYet

ArangeSpec == ArangeInit /\ [][StepReset]_vars

\* is_busy alone: a stage bound to any of the three axes whose cache holds a fresh
\* response to TS, for every value of the status byte
StatusWords == 0..255

BusyInit ==
    /\ connection = "open" /\ axis \in Axes /\ rx = << >> /\ link = "up"
    /\ \E b \in StatusWords : cache = (TS :> [resp |-> <<b>>, age |-> 0, of |-> TS])
    /\ dev = [on |-> Installed, busy |-> {}, pos |-> [a \in Installed |-> 0]]
    /\ last = [op |-> "init", io |-> << >>, tmo |-> FALSE, exc |-> "", ret |-> RetNone, arg |-> 0,
               port |-> << >>]
    /\ calls = 0
    /\ NoRun

BusySpec == BusyInit /\ [][CallIsBusy]_vars

----------------------------------------------------------------------------
(* The main window: the sweep widget and the stage widgets share one Stage.   *)
(* The refresh timers of MyMainWindow, StageMonitor and StageControl fire in  *)
(* the main thread whether a run is active or not; each Stage call they make  *)
(* is one step.                                                               *)

\* a Stage call made in the main thread by a timer callback or a stage button
GuiCall(r, op) == axis # 0 /\ Commit(r, op)

\* StageMonitor._update_axis_info: self.stage.error_status()
GuiErrorStatus == GuiCall(ErrorStatus(World), "error_status")

\* MyMainWindow._update_current_value, StageMonitor._update_axis_info: self.stage.get_position()
GuiGetPosition == GuiCall(GetPosition(World), "get_position")

\* StageMonitor._update_axis_info, StageControl._update_axis_info: self.stage.is_busy()
GuiIsBusy == GuiCall(IsBusy(World), "is_busy")

\* StageControl._update_axis_info: self.stage.enabled()
GuiEnabled == GuiCall(Enabled(World), "enabled")

\* StageControl._stop, the STOP button: self.stage.stop()
GuiStop == GuiCall(Stop(World), "stop")

\* a session with a bound and polled stage, its motor on, a DAQ channel, and a
\* sweep of one angle and two samples without homing
GuiInit ==
    /\ RunInit
    /\ connection = "open" /\ cache # << >> /\ dev.on # {} /\ daq = "ok"
    /\ params.end = 0 /\ params.nb = 2 /\ ~params.homing

\* the sweeps run to their end: the line keeps working and nobody cancels
GuiNext ==
    \/ WorkerNext \/ PressStart \/ Deliver \/ RunTick \/ RunMotionDone
    \/ GuiErrorStatus \/ GuiGetPosition \/ GuiIsBusy \/ GuiEnabled \/ GuiStop

GuiSpec == GuiInit /\ [][GuiNext]_vars

----------------------------------------------------------------------------
(* Claims about the Stage *)

Ready == connection # "None" /\ axis # 0

\* the cache entry a mutating operation evicts
EvictedKey(op) == IF op \in {"enable", "disable"} THEN Cmd(axis, "MO?", 0) ELSE TS
Mutators == {"enable", "disable", "goto_home", "goto_position", "stop"}

Queries == {"enabled", "is_busy", "get_position", "get_velocity"}

\* the command a cached query sends
QueryKey(op) ==
    CASE op = "enabled" -> Cmd(axis, "MO?", 0)
      [] op = "is_busy" -> TS
      [] op = "get_position" -> Cmd(axis, "PA?", 0)
      [] op = "get_velocity" -> Cmd(axis, "VA?", 0)

\* what a cached query makes of the response _cached_command hands it
Decoded(op, resp) ==
    CASE op = "enabled" -> [exc |-> "", ret |-> RetBool(IntFromBytes(resp) # 0)]
      [] op = "is_busy" -> [exc |-> "", ret |-> RetBool(BusyBit(resp, axis))]
      [] OTHER -> IF FloatOf(resp).ok THEN [exc |-> "", ret |-> RetNum(FloatOf(resp).n)]
                  ELSE [exc |-> "ValueError", ret |-> RetNone]

Outcome(l) == [exc |-> l.exc, ret |-> l.ret]
Fresh(k) == k \in DOMAIN cache /\ cache[k].age < cache_timeout
QueryStep == calls' = calls + 1 /\ last'.op \in Queries /\ Ready

\* a cached query served from the cache: nothing written, nothing changed, the stored response decoded
ServedFromCache(k) ==
    /\ last'.io = << >> /\ cache' = cache /\ rx' = rx /\ dev' = dev
    /\ Outcome(last') = Decoded(last'.op, cache[k].resp)

\* a cached query that made one round-trip: the command written once, the answer
\* (nothing, when none arrived) stored with age 0 and decoded
OneRoundTrip(k) ==
    LET answer == IF link = "up" THEN DeviceAnswer(dev, k) ELSE None IN
    /\ last'.io = <<k>>
    /\ k \in DOMAIN cache' /\ cache'[k].age = 0 /\ cache'[k].resp = answer
    /\ Outcome(last') = Decoded(last'.op, answer)

C3_TimeoutIsFailure ==
    /\ last.tmo => last.exc # ""
    /\ \A k \in DOMAIN cache : cache[k].resp # None

----------------------------------------------------------------------------
(* Claims about the sweep *)

\* no Stage operation has raised, and DAQ.read_channel does not raise
NothingRaises == last.exc = "" /\ daq = "ok"

Running == pc # "idle"

LastSignal(q) == q[Len(q)]

C5Step ==
    /\ (Running /\ pc' = "idle" /\ run'.ended # "killed")
          => /\ Len(mainq') = Len(mainq) + 1
             /\ SubSeq(mainq', 1, Len(mainq)) = mainq
             /\ run'.emitted = 1
             /\ \/ run'.ended = "finished" /\ LastSignal(mainq') = [sig |-> "finished", exc |-> ""]
                \/ /\ run'.ended = "failed"
                   /\ LastSignal(mainq').sig = "failed"
                   /\ LastSignal(mainq').exc = run'.raised
                   /\ run'.raised # ""
                   /\ last' # last => LastSignal(mainq').exc = last'.exc
    /\ (pc' # "idle" \/ ~Running) => Len(mainq') <= Len(mainq)

C6_FailureKeepsSamples ==
    (run.ended = "failed" /\ run.added # << >>) => measurements = run.added

\* a run has failed after appending a sample, and the failed notification has been delivered
C6_Witness ==
    /\ run.ended = "failed" /\ Len(run.added) >= 1
    /\ measurements = run.added
    /\ mainq = << >> /\ ui.done >= 1

CancelStep == ui'.cancels = ui.cancels + 1

NoSampleAfterKill ==
    (run.ended = "killed" /\ run'.ended = "killed")
        => (measurements' = measurements /\ run'.added = run.added)

\* C7 as stated: cancelling a run while the stage is busy writes the stop command, and the
\* terminated run appends no sample and emits no sample-added notification afterwards
C7_CancelSendsStop ==
    [][/\ (CancelStep /\ Running /\ axis \in dev.busy)
              => (last'.op = "stop" /\ last'.io = <<Cmd(axis, "ST", 0)>>)
       /\ NoSampleAfterKill]_vars

\* C7: cancelling a run while the stage is busy calls stop(), which writes the stop command
\* unless the serial write raises; the terminated run appends no sample and emits no
\* sample-added notification afterwards
C7_CancelCallsStop ==
    [][/\ (CancelStep /\ Running /\ axis \in dev.busy)
              => /\ last'.op = "stop"
                 /\ last'.exc \in {"", "KeyError", "SerialException"}
                 /\ last'.exc # "SerialException" => last'.io = <<Cmd(axis, "ST", 0)>>
       /\ NoSampleAfterKill]_vars

\* a run was cancelled while the stage was moving, after it had appended a sample;
\* the stop command was written
C7_Witness ==
    /\ ui.cancels >= 1
    /\ run.ended = "killed" /\ run.busyAtKill
    /\ run.added # << >>
    /\ last.op = "stop" /\ last.io = <<Cmd(axis, "ST", 0)>>

C9_CancelOnlyAtSuspensionPoints ==
    /\ run.ended = "killed" => run.killedAt \notin {"enabled_rx", "wait_rx"}
    /\ thread = "stopped" => rx = << >>
    /\ \A k \in DOMAIN cache : cache[k].of \in {k, NoCmd}

\* C10 as stated: no do_measurement call is queued behind an executing one
C10_OneRunAtATime == ~(Running /\ evq > 0)

----------------------------------------------------------------------------
(* Claims about the ownership of the Stage *)

\* C11 as stated: while a run is active, the only Stage operation called from outside
\* the run is stop(); the refresh timers call none
C11_RunOwnsStage ==
    [][(Running /\ calls' # calls) => last'.op = "stop"]_vars

\* the run has written a query and not yet read its response
InFlight == pc \in {"enabled_rx", "wait_rx"}

\* a stop() called by the main thread: the cancel button, or the STOP button
OwnerStop == last'.op = "stop" /\ (CancelStep \/ calls' # calls)

\* C12 as stated: a stop() of the owner while the run has a command in flight writes
\* nothing to the transport and leaves the cache as it is
C12_StopExcludesCommand ==
    [][(InFlight /\ OwnerStop) => (last'.io = << >> /\ cache' = cache)]_vars

----------------------------------------------------------------------------
(* Claims about errors, binding and teardown *)

\* the operations decorated with connection_check, and disable, which calls enable
Guarded == Mutators \cup Queries \cup {"error_status"}

\* C13: an operation other than connection and axis management, called on a stage
\* without a connection or without a bound axis, raises RuntimeError, writes nothing
\* to the transport and leaves the cache as it was
C13_NotReadyFailsClean ==
    [][(calls' # calls /\ last'.op \in Guarded /\ (connection = "None" \/ axis = 0))
          => (last'.exc = "RuntimeError" /\ last'.io = << >> /\ cache' = cache)]_vars

\* an operation has failed so on a stage that was closed with a response in its cache
C13_Witness ==
    /\ last.op \in Guarded /\ last.exc = "RuntimeError" /\ last.io = << >>
    /\ connection = "closed" /\ axis = 0
    /\ cache # << >>

\* a byte string that spells "unknown" in some mix of upper and lower case
IsUnknownAnyCase(b) ==
    Len(b) = 7 /\ \A i \in 1..7 : b[i] = unknown[i] \/ b[i] = unknown[i] - 32

\* what a stage with an empty input buffer reads after writing command c
Answer(c) == IF link = "up" THEN DeviceAnswer(dev, c) ELSE None

\* C14: set_axis(n) with an open connection and n in 1..3 raises RuntimeError and
\* leaves no axis bound when the identity response is "unknown" in any letter case;
\* when it binds an axis, it binds n and the response was not "unknown"
C14_UnknownAxisRefused ==
    [][\A n \in Axes :
          (calls' # calls /\ last'.op = "set_axis" /\ last'.io = <<Cmd(n, "ID?", 0)>> /\ rx = << >>)
             => /\ IsUnknownAnyCase(Answer(Cmd(n, "ID?", 0)))
                      => (last'.exc = "RuntimeError" /\ axis' = 0)
                /\ axis' # 0
                      => (axis' = n /\ last'.exc = "" /\ ~IsUnknownAnyCase(Answer(Cmd(n, "ID?", 0))))]_vars

\* set_axis(3) has been refused on the answer "UNKNOWN"
C14_Witness ==
    /\ last.op = "set_axis" /\ last.io = <<Cmd(3, "ID?", 0)>>
    /\ last.exc = "RuntimeError"
    /\ connection = "open" /\ axis = 0 /\ link = "up"

SetAxisStep == calls' # calls /\ last'.op = "set_axis"

C16_SetAxisClearsCache ==
    [][(SetAxisStep /\ last'.exc = "")
          => (axis' = last'.arg /\ cache' = << >>)]_vars

\* the number of open serial ports after the port events ev, n being open before them:
\* close() is called on the stage's connection, a new ESP301_Connection opens one more
RECURSIVE PortsOpen(_, _)
PortsOpen(n, ev) ==
    IF ev = << >> THEN n
    ELSE PortsOpen(IF Head(ev) = "close" THEN 0 ELSE n + 1, Tail(ev))

OpenBefore == IF connection = "open" THEN 1 ELSE 0

\* C17: after every call the stage has at most one open serial port, which is its
\* connection; an open_connection that returns normally has closed the connection the
\* stage had before it opened the new one, and the new one is the stage's connection
C17_AtMostOneConnection ==
    [][calls' # calls
          => /\ PortsOpen(OpenBefore, last'.port) = (IF connection' = "open" THEN 1 ELSE 0)
             /\ \A i \in 1..Len(last'.port) :
                    PortsOpen(OpenBefore, SubSeq(last'.port, 1, i)) <= 1
             /\ (last'.op = "open_connection" /\ last'.exc = "")
                    => /\ connection' = "open"
                       /\ last'.port = (IF connection = "open" THEN <<"close">> ELSE << >>)
                                           \o <<"open">>]_vars

\* open_connection has returned normally on a stage that had an open connection and a
\* bound axis: the old port was closed, then the new one opened
C17_Witness ==
    /\ last.op = "open_connection" /\ last.exc = ""
    /\ last.port = <<"close", "open">>
    /\ last.io # << >>
    /\ connection = "open" /\ axis = 0

CloseStep == calls' # calls /\ last'.op = "close"

\* C18: close() returns normally whatever its stop() and disable() attempts raise, and
\* the serial port is released afterwards
C18_CloseNeverFails ==
    [][CloseStep => (last'.exc = "" /\ connection' # "open")]_vars

\* C19: after a close() that returns normally the stage has no connection, no bound
\* axis and an empty response cache
C19_CloseClearsState ==
    [][(CloseStep /\ last'.exc = "")
          => (connection' = "None" /\ axis' = 0 /\ cache' = << >>)]_vars

\* the stage has been closed and no connection opened since
Closed == connection = "closed" \/ (last.op = "close" /\ connection # "open")

\* C20: close() on a closed stage returns normally, writes nothing and changes nothing
\* of the stage
C20_CloseIdempotent ==
    [][(CloseStep /\ Closed)
          => /\ last'.exc = "" /\ last'.io = << >> /\ last'.port = << >>
             /\ UNCHANGED <<connection, axis, cache, rx, dev, link>>]_vars

\* close() has returned on a stage that was closed already, with the responses cached
\* before the first close still there
C20_Witness ==
    /\ last.op = "close" /\ last.exc = "" /\ last.io = << >> /\ last.port = << >>
    /\ connection = "closed" /\ axis = 0
    /\ cache # << >>
    /\ calls >= 3

----------------------------------------------------------------------------
(* Claims about the samples, the sleeps and the angles of a run *)

\* C21: when a run has emitted finished over N angles with k samples per angle, it has
\* emitted exactly N*k sample-added notifications, the i-th of which is the i-th
\* element of the result, and the result holds the k samples of each angle one after
\* the other in the order of the angle sequence
C21_SamplesBeforeFinished ==
    run.ended = "finished"
       => LET N == Len(Angles(params))
              k == params.nb
          IN /\ Len(run.added) = N * k
             /\ measurements = run.added
             /\ \A i \in 1..Len(run.added) :
                   run.added[i][1] = Angles(params)[((i - 1) \div k) + 1]

\* a run over two angles with two samples each has finished, with readings that differ
C21_Witness ==
    /\ run.ended = "finished"
    /\ params.nb = 2 /\ Len(Angles(params)) = 2
    /\ Len(measurements) = 4
    /\ measurements[1][2] # measurements[2][2]
    /\ measurements[3][1] = Res

\* C22: within an angle the run sleeps after the i-th read exactly when i < k, for
\* measurement_interval, before the next read: when the reads of an angle are done it
\* has slept k - 1 times, never after the last read, never when k = 1
C22_SleepsBetweenReads ==
    /\ [](/\ pc = "sample" => (loc.si < params.nb /\ loc.sleeps = loc.si)
          /\ pc = "sleep" => (1 <= loc.si /\ loc.si < params.nb /\ loc.sleeps = loc.si)
          /\ pc = "save" => (loc.si = params.nb /\ loc.sleeps = params.nb - 1))
    /\ [][/\ (pc # "sleep" /\ pc' = "sleep")
                => (pc = "sample" /\ Len(measurements') = Len(measurements) + 1
                      /\ loc'.timer = params.interval)
          /\ (pc = "sleep" /\ pc' \notin {"sleep", "idle"})
                => (pc' = "sample" /\ loc.timer = 0 /\ measurements' = measurements)
          /\ (pc = "sample" /\ pc' = "save") => loc'.si = params.nb]_vars

\* the two reads of an angle are done, with one sleep between them
C22_Witness ==
    /\ pc = "save" /\ params.nb = 2
    /\ loc.si = 2 /\ loc.sleeps = 1
    /\ Len(measurements) >= 2

\* the run has just computed its angles
AnglesComputed == pc = "reset" /\ pc' \in {"move", "finish"}

\* a is start, start + inc, ... : exactly the terms smaller than end + inc/10
TermsBelowStop(a, p) ==
    /\ \A i \in 1..Len(a) : a[i] = p.start + (i - 1) * p.inc
    /\ \A i \in 1..Len(a) : 10 * a[i] < 10 * p.end + p.inc
    /\ 10 * (p.start + Len(a) * p.inc) >= 10 * p.end + p.inc

\* C23: for increment > 0 and start <= end the angles are start, start + increment, ...
\* with exactly the terms smaller than end + increment/10, in increasing order
C23_AnglesBelowStop ==
    [][(AnglesComputed /\ params.inc > 0 /\ params.start <= params.end)
          => TermsBelowStop(loc'.angles, params)]_vars

\* C24: for increment > 0 and start <= end the last angle differs from the end angle by
\* at most one tenth of the increment
C24_EndCovered ==
    [][(AnglesComputed /\ params.inc > 0 /\ params.start <= params.end)
          => LET a == loc'.angles IN
             /\ Len(a) > 0
             /\ 10 * (params.end - a[Len(a)]) <= params.inc
             /\ 10 * (a[Len(a)] - params.end) <= params.inc]_vars

----------------------------------------------------------------------------
(* Claims about the save file *)

\* the run writes its save file
Writes == file'.writes > file.writes

\* C25: the run writes the file only with a save file set and after all the readings of
\* an angle, each write restarts the time since the last save, and a write that is not
\* the run's first comes at least 1 s after the one before
C25_CheckpointsSpaced ==
    [][Writes
          => /\ params.save
             /\ pc = "save" /\ loc.si = params.nb
             /\ loc'.since = 0
             /\ file.writes > 0 => file.gap >= SaveAfter]_vars

\* the main thread handles the finished notification of a run that had a save file
FinishedHandled ==
    /\ Len(mainq) > 0 /\ Head(mainq).sig = "finished" /\ mainq' = Tail(mainq)
    /\ params.save

\* C26: when a run with a save file has finished and its finished notification has
\* been handled, the file holds the header row and every sample of the run
C26_FileCompleteAfterRun ==
    [][FinishedHandled => file'.rows = <<"header">> \o measurements']_vars

----------------------------------------------------------------------------
(* Claims about the commands of a run *)

\* the run appends a sample
Appends == Len(measurements') = Len(measurements) + 1
Appended == measurements'[Len(measurements')]

\* C28 as stated: the position in the last move command sent before a sample was read is
\* exactly the negated angle of the sample
C28_PositionIsNegatedAngle ==
    [][Appends => Res * loc.moved = 0 - Appended[1]]_vars

\* C28: every sample carries the angle a of the loop, and the position in the last move
\* command sent before it was read is -a formatted with four decimals: the multiple of
\* 0.0001 nearest to -a
C28_PositionIsFormattedNegatedAngle ==
    [][Appends
          => /\ Appended[1] = loc.angles[loc.ai]
             /\ 2 * (Res * loc.moved + Appended[1]) <= Res
             /\ 2 * (Res * loc.moved + Appended[1]) >= 0 - Res
             /\ loc.moved <= 0]_vars

\* a sample has been appended at an angle that is no multiple of 0.0001 degree, after
\* a move to a position other than 0
C28_Witness ==
    /\ pc \in {"sample", "sleep", "save"} /\ Len(measurements) > 0
    /\ measurements[Len(measurements)][1] % Res # 0
    /\ loc.moved # 0
    /\ last.op = "is_busy"

\* the run gets the value of enabled(), from the response rsp
EnabledDecided == pc \in {"enabled", "enabled_rx"} /\ pc' \in {"enable", "home"}
EnabledResponse ==
    IF pc = "enabled" THEN CacheGet(cache, Cmd(axis, "MO?", 0)).resp
    ELSE IF rx # << >> THEN Head(rx).val
    ELSE None

\* C29: when the response to the MO? query is '0' the run goes on to send the enable
\* command, before it homes or moves; when it is '1' the run sends no enable command
C29_EnableIffDisabled ==
    [][EnabledDecided
          => /\ EnabledResponse = <<48>> => pc' = "enable"
             /\ EnabledResponse = <<49>> => pc' = "home"]_vars

----------------------------------------------------------------------------
(* Claims about the result of the previous run *)

\* C30: when a run fails before it has appended a sample, the measurements are still
\* the ones of the run before it: as many as there were when the run began
C30_FailedStartKeepsResult ==
    [][(run'.ended = "failed" /\ run.ended = "" /\ run'.added = << >>)
          => Len(measurements') = run.prev]_vars

----------------------------------------------------------------------------
(* Claims about the wait for the stage *)

\* the run sends a move command; the run reads the sampler
MoveIssued == pc = "move" /\ last'.op = "goto_position" /\ last'.io # << >>
SamplerRead == pc = "sample" /\ (Appends \/ run'.ended = "failed")

\* C27: after a home or move command the run sends no move command and reads no sample
\* before the response to a TS query written after that command has said that the bound
\* axis is not busy
C27_WaitsForFreshStatus ==
    [][(MoveIssued \/ SamplerRead) => loc.fresh]_vars

----------------------------------------------------------------------------
(* Claims about a run after a failure *)

\* the step in which an operation of the run raises
Raises == run.ended = "" /\ run'.ended = "failed"

\* C31: the step in which a stage or sampler operation raises emits the failed
\* notification and ends the run; from then on, until another run begins, the worker is
\* at no statement of do_measurement, no Stage operation is made except by the main
\* thread's handlers, and no sample is read
C31_NoStepAfterFailure ==
    /\ [](run.ended = "failed" => pc = "idle")
    /\ [][Raises => /\ mainq' = Append(mainq, [sig |-> "failed", exc |-> run'.raised])
                    /\ measurements' = measurements]_vars
    /\ [][(run.ended = "failed" /\ run'.ended = "failed")
             => /\ measurements' = measurements /\ run'.added = run.added
                /\ (last' # last => ui' # ui)
                /\ Len(mainq') <= Len(mainq)]_vars

\* a run has failed in the middle of its sweep, and the failure has been handled
C31_Witness ==
    /\ run.ended = "failed" /\ run.raised # "" /\ Len(run.added) > 0
    /\ mainq = << >> /\ ui.done > 0

----------------------------------------------------------------------------
(* Claims about the decoding of the status word *)

\* the bits that are set in a byte
Bits(b) == {i \in 0..7 : (b \div (2 ^ i)) % 2 = 1}

\* the status word that the last is_busy decoded
StatusWord == cache[TS].resp[1]

\* C32: is_busy returns true exactly when bit axis-1 of the status word is set,
\* whatever the other bits are
C32_BusyIsBitOfAxis ==
    last.op = "is_busy" => /\ last.exc = ""
                           /\ last.ret = RetBool((axis - 1) \in Bits(StatusWord))

\* is_busy has returned false for axis 2 on a status word in which every other bit is set
C32_Witness ==
    /\ last.op = "is_busy" /\ axis = 2 /\ StatusWord = 253
    /\ last.ret = RetBool(FALSE)

----------------------------------------------------------------------------
(* Claims about the two attempts of close() *)

\* C33: close() on a stage with a connection and a bound axis, over a line that takes
\* writes, writes the stop command and then the disable command, whether the stop
\* attempt fails or not
C33_CloseStopsThenDisables ==
    [][(CloseStep /\ connection = "open" /\ axis # 0 /\ link # "down")
          => last'.io = <<Cmd(axis, "ST", 0), Cmd(axis, "MF", 0)>>]_vars

----------------------------------------------------------------------------
(* Claims about the mutating calls and the cache *)

\* C34: on a stage with an open connection and a bound axis, over a working line,
\* enable, disable, goto_home, goto_position and stop return normally, whether or not
\* the cache holds the entry they evict
C34_MutatorsReturnNormally ==
    [][(calls' # calls /\ last'.op \in Mutators
          /\ connection = "open" /\ axis # 0 /\ link = "up") => last'.exc = ""]_vars

----------------------------------------------------------------------------
(* Claims about a set_axis that fails *)

\* a call of set_axis, with an int or with something else
AnySetAxisStep == calls' # calls /\ last'.op \in {"set_axis", "set_axis (not an int)"}

\* the operations that need a bound axis
AxisOps ==
    {"enable", "disable", "enabled", "goto_home", "is_busy", "get_position",
     "goto_position", "get_velocity", "stop", "error_status"}

\* C35: a set_axis that raises, whatever it raises, leaves no axis bound; while no axis
\* is bound every axis operation raises RuntimeError and writes nothing, and only a
\* set_axis that returns normally binds an axis again
C35_FailedSetAxisUnbinds ==
    /\ [][(AnySetAxisStep /\ last'.exc # "") => axis' = 0]_vars
    /\ [][(axis = 0 /\ calls' # calls /\ last'.op \in AxisOps)
             => (last'.exc = "RuntimeError" /\ last'.io = << >> /\ axis' = 0)]_vars
    /\ [][(axis = 0 /\ axis' # 0) => (last'.op = "set_axis" /\ last'.exc = "")]_vars

\* the first call on a stage constructed with a port and an axis was a set_axis with an
\* argument that is not an int: it raised TypeError and the axis is gone
C35_Witness ==
    /\ calls = 1 /\ last.op = "set_axis (not an int)" /\ last.exc = "TypeError"
    /\ connection = "open" /\ axis = 0

----------------------------------------------------------------------------
(* Claims about the widget's announcements *)

\* C36: sig_experiment_finished is emitted (_measurement_done runs) at most once for
\* every sig_experiment_started
C36_OneFinishedPerStarted == ui.done <= ui.starts

----------------------------------------------------------------------------
(* Claims about a sweep whose start angle lies above its end angle *)

\* the start angle is larger than the end angle by more than a tenth of the increment
Downward == 10 * (params.start - params.end) > params.inc

\* C37: when the start angle is larger than the end angle by more than a tenth of the
\* increment, the run computes an empty angle sequence: it empties the result, goes
\* straight to the finished notification, and sends no move command and reads no sample
C37_EmptySweepFinishes ==
    /\ [](Downward => /\ pc \notin {"move", "sample", "sleep", "save"}
                      /\ run.added = << >>
                      /\ last.op # "goto_position")
    /\ [][(Downward /\ pc = "reset" /\ pc' \notin {"reset", "idle"})
             => (pc' = "finish" /\ loc'.angles = << >> /\ measurements' = << >>)]_vars
    /\ [][(Downward /\ pc = "finish" /\ pc' # "finish" /\ thread' = "running")
             => (mainq' = Append(mainq, [sig |-> "finished", exc |-> ""])
                   /\ measurements' = << >>)]_vars

\* a run from a start angle above the end angle has finished, and the result that the
\* run before it had left is gone
C37_Witness ==
    /\ Downward /\ run.ended = "finished" /\ run.prev > 0
    /\ measurements = << >> /\ loc.angles = << >>

====
